---- MODULE Spec2Model ----
(***************************************************************************)
(* The data-preparation pipeline of how-to-expected-goals.ipynb: the       *)
(* notebook's code cells run top to bottom over the shots dataset.  Each   *)
(* code cell that changes state is one action; a cell that raises stops    *)
(* the run, keeping what the statements before the raise already did.      *)
(*                                                                         *)
(* Numbers are exact rationals <<n, d>> in lowest terms (d > 0).  A        *)
(* DataFrame is [index |-> row labels, data |-> column name -> values], a  *)
(* Series is [index |-> row labels, values |-> values].  A result of a     *)
(* learning or metrics library call is the record of the call's arguments. *)
(***************************************************************************)
EXTENDS Integers, Sequences, FiniteSets

\* Largest number of shots in the dataset file of the pipeline runs.
MaxRows == 3

\* Largest number of examples handed to the splitter on its own.
MaxSamples == 120

(***************************************************************************)
(* Exact rational arithmetic                                               *)
(***************************************************************************)
Abs(n) == IF n < 0 THEN -n ELSE n

RECURSIVE GCD(_, _)
GCD(a, b) == IF b = 0 THEN a ELSE GCD(b, a % b)

\* The rational n/d (d > 0) in lowest terms.
Frac(n, d) ==
    LET g == GCD(Abs(n), d)
    IN  IF g = 0 THEN <<0, 1>> ELSE <<n \div g, d \div g>>

FracLeq(f, g) == f[1] * g[2] <= g[1] * f[2]

\* Python's `value / k` on a float column value.
Divide(f, k) == Frac(f[1], f[2] * k)

(***************************************************************************)
(* DataFrame helpers                                                       *)
(***************************************************************************)
EmptyFrame == [index |-> <<>>, data |-> <<>>]

EmptySeries == [index |-> <<>>, values |-> <<>>]

Columns(df) == DOMAIN df.data

\* df[key] = values
SetColumn(df, key, values) ==
    [df EXCEPT !.data = [c \in Columns(df) \cup {key} |->
                            IF c = key THEN values ELSE df.data[c]]]

(***************************************************************************)
(* Column names                                                            *)
(***************************************************************************)
SLOTS == <<"action", "action1", "action2">>

SIDES == <<"start", "end">>

\* '{}_{}_x'.format(action, side) and '{}_{}_y'.format(action, side)
Key(action, side, axis) == action \o "_" \o side \o "_" \o axis

\* '{action}_<suffix>'.format(action=action)
ActionKey(action, suffix) == action \o "_" \o suffix

\* Columns the pipeline reads from the file, and one it never touches.
COORDINATE_COLUMNS ==
    {Key(SLOTS[a], SIDES[s], axis) : a \in 1..3, s \in 1..2, axis \in {"x", "y"}}

BODY_PART_COLUMNS == {ActionKey(SLOTS[a], "body_part_id") : a \in 1..3}

RequiredColumns == COORDINATE_COLUMNS \cup BODY_PART_COLUMNS \cup {"action_result"}

(***************************************************************************)
(* Dataset files: shots.parquet holds one row per shot.  The sample        *)
(* actions cover the corners and the centre line of the 105 x 68 pitch,    *)
(* locations outside it, and body-part codes inside and outside {0, 1, 2}. *)
(***************************************************************************)
Act(sx, sy, ex, ey, bp) ==
    [start_x |-> sx, start_y |-> sy, end_x |-> ex, end_y |-> ey, body_part_id |-> bp]

ActSamples ==
    << Act(105, 34, 105, 68, 0),
       Act(0, 34, 0, 0, 1),
       Act(0, 0, 21, 17, 2),
       Act(106, 69, 105, 68, 3),
       Act(63, 51, -21, 34, -1) >>

ShotSamples ==
    << [action |-> 1, action1 |-> 2, action2 |-> 3, result |-> 1],
       [action |-> 2, action1 |-> 3, action2 |-> 1, result |-> 0],
       [action |-> 3, action1 |-> 1, action2 |-> 2, result |-> 0],
       [action |-> 4, action1 |-> 5, action2 |-> 1, result |-> 1] >>

\* The value the file holds in column `column` for sample shot `shot`.
FileValue(shot, column) ==
    IF column = "action_result" THEN ShotSamples[shot].result
    ELSE IF column = "game_id" THEN 100 + shot
    ELSE LET a == CHOOSE a \in 1..3 :
                    \/ column \in {Key(SLOTS[a], SIDES[s], axis) :
                                      s \in 1..2, axis \in {"x", "y"}}
                    \/ column = ActionKey(SLOTS[a], "body_part_id")
             act == ActSamples[ShotSamples[shot][SLOTS[a]]]
         IN  IF column = ActionKey(SLOTS[a], "body_part_id") THEN act.body_part_id
             ELSE IF column = Key(SLOTS[a], "start", "x") THEN Frac(act.start_x, 1)
             ELSE IF column = Key(SLOTS[a], "start", "y") THEN Frac(act.start_y, 1)
             ELSE IF column = Key(SLOTS[a], "end", "x") THEN Frac(act.end_x, 1)
             ELSE Frac(act.end_y, 1)

\* A file whose rows are the sample shots `shots`, labelled 0, 1, ... in
\* file order, with the columns `columns`.
File(shots, columns) ==
    [index |-> [i \in 1..Len(shots) |-> i - 1],
     data  |-> [c \in columns |-> [i \in 1..Len(shots) |-> FileValue(shots[i], c)]]]

ShotLists == UNION {[1..n -> 1..Len(ShotSamples)] : n \in 1..MaxRows}

\* Files with the full schema, and files that lack one required column.
Files ==
    {File(shots, RequiredColumns \cup {"game_id"}) : shots \in ShotLists}
    \cup {File(shots, (RequiredColumns \cup {"game_id"}) \ {missing}) :
            shots \in ShotLists, missing \in RequiredColumns}

(***************************************************************************)
(* State                                                                   *)
(***************************************************************************)
VARIABLES
    shots_parquet,   \* the dataset file on disk
    pc,              \* the last cell that completed, or "error"
    error,           \* the exception that stopped the run, or "none"
    df_dataset,
    X, y,
    X_train, X_test, y_train, y_test,
    classifier,      \* the fitted model: the data it was fitted on
    y_pred,          \* the predictions: the model and the rows it predicted
    y_total, y_positive, auc_pr_baseline,
    auc_roc, auc_pr, \* the scores: the labels and predictions they compare
    plots            \* the diagrams rendered so far, in order

data_vars == <<X, y>>
split_vars == <<X_train, X_test, y_train, y_test>>
model_vars == <<classifier, y_pred>>
eval_vars == <<y_total, y_positive, auc_pr_baseline, auc_roc, auc_pr, plots>>

vars == <<shots_parquet, pc, error, df_dataset, data_vars, split_vars, model_vars, eval_vars>>

NoModel == [X |-> EmptyFrame, y |-> EmptySeries]

NoPrediction == [model |-> NoModel, X |-> EmptyFrame]

NoScore == [y_true |-> EmptySeries, y_score |-> NoPrediction]

\* Every name the later cells bind is still unbound.
Unbound ==
    /\ X = EmptyFrame
    /\ y = EmptySeries
    /\ X_train = EmptyFrame
    /\ X_test = EmptyFrame
    /\ y_train = EmptySeries
    /\ y_test = EmptySeries
    /\ classifier = NoModel
    /\ y_pred = NoPrediction
    /\ y_total = 0
    /\ y_positive = 0
    /\ auc_pr_baseline = Frac(0, 1)
    /\ auc_roc = NoScore
    /\ auc_pr = NoScore
    /\ plots = <<>>

Init ==
    /\ shots_parquet \in Files
    /\ pc = "start"
    /\ error = "none"
    /\ df_dataset = EmptyFrame
    /\ Unbound

\* What a cell leaves behind: the frame, and the exception it raised if any.
Outcome(df, err) == [df |-> df, error |-> err]

KeyError(key) == "KeyError: " \o key

Raised(r) == r.error # "none"

(***************************************************************************)
(* Cell 8: df_dataset = pd.read_parquet('shots.parquet')                   *)
(***************************************************************************)
Load ==
    /\ pc = "start"
    /\ df_dataset' = shots_parquet
    /\ pc' = "loaded"
    /\ UNCHANGED <<shots_parquet, error, data_vars, split_vars, model_vars, eval_vars>>

(***************************************************************************)
(* Cell 13: normalize the location features                                *)
(***************************************************************************)
\* The division applied a second time to its own result.
NormalizeColumnTwice(df, key, divisor) ==
    SetColumn(df, key,
              [i \in 1..Len(df.data[key]) |-> Divide(Divide(df.data[key][i], divisor), divisor)])

\* df_dataset[key] = df_dataset[key] / divisor
NormalizeColumn(df, key, divisor) ==
    SetColumn(df, key, [i \in 1..Len(df.data[key]) |-> Divide(df.data[key][i], divisor)])

\* The divisors of the two axes swapped.
NormalizeStepsSwapped ==
    [n \in 1..12 |->
        LET a == SLOTS[((n - 1) \div 4) + 1]
            s == SIDES[(((n - 1) \div 2) % 2) + 1]
        IN  IF n % 2 = 1 THEN [key |-> Key(a, s, "x"), divisor |-> 68]
                         ELSE [key |-> Key(a, s, "y"), divisor |-> 105]]

\* The loop's assignments in execution order: for each action, for each
\* side, the x column by 105 and then the y column by 68.
NormalizeSteps ==
    [n \in 1..12 |->
        LET a == SLOTS[((n - 1) \div 4) + 1]
            s == SIDES[(((n - 1) \div 2) % 2) + 1]
        IN  IF n % 2 = 1 THEN [key |-> Key(a, s, "x"), divisor |-> 105]
                         ELSE [key |-> Key(a, s, "y"), divisor |-> 68]]

\* The loop skipping a column the dataset lacks instead of raising.
RECURSIVE NormalizeFromSkipping(_, _)
NormalizeFromSkipping(df, n) ==
    IF n > Len(NormalizeSteps) THEN Outcome(df, "none")
    ELSE LET step == NormalizeSteps[n]
         IN  IF step.key \notin Columns(df) THEN NormalizeFromSkipping(df, n + 1)
             ELSE NormalizeFromSkipping(NormalizeColumn(df, step.key, step.divisor), n + 1)

RECURSIVE NormalizeFrom(_, _)
NormalizeFrom(df, n) ==
    IF n > Len(NormalizeSteps) THEN Outcome(df, "none")
    ELSE LET step == NormalizeSteps[n]
         IN  IF step.key \notin Columns(df) THEN Outcome(df, KeyError(step.key))
             ELSE NormalizeFrom(NormalizeColumn(df, step.key, step.divisor), n + 1)

Normalize ==
    /\ pc = "loaded"
    /\ LET r == NormalizeFrom(df_dataset, 1)
       IN  /\ df_dataset' = r.df
           /\ error' = r.error
           /\ pc' = IF Raised(r) THEN "error" ELSE "normalized"
    /\ UNCHANGED <<shots_parquet, data_vars, split_vars, model_vars, eval_vars>>

(***************************************************************************)
(* Cells 17 and 18: distance from each action's start location to the goal *)
(***************************************************************************)
\* The goal centre in raw pitch coordinates.
goal_raw == <<Frac(105, 1), Frac(34, 1)>>

\* Normalized location for the center of the opposing goal: goal = (1, 0.5)
goal == <<Frac(1, 1), Frac(1, 2)>>

FracAdd(f, g) == Frac(f[1] * g[2] + g[1] * f[2], f[2] * g[2])

\* (f - g)^2
SquaredDifference(f, g) ==
    LET d == Frac(f[1] * g[2] - g[1] * f[2], f[2] * g[2])
    IN  Frac(d[1] * d[1], d[2] * d[2])

\* The non-negative square root of the rational f, kept as its radicand.
Sqrt(f) == [sqrt_of |-> f]

\* scipy's distance.euclidean(u, v) on two points of the plane
euclidean(u, v) ==
    Sqrt(FracAdd(SquaredDifference(u[1], v[1]), SquaredDifference(u[2], v[2])))

\* df.apply(lambda s: distance.euclidean((s[key_x], s[key_y]), goal), axis=1)
ApplyDistance(df, key_x, key_y) ==
    [i \in 1..Len(df.index) |-> euclidean(<<df.data[key_x][i], df.data[key_y][i]>>, goal)]

RECURSIVE DistanceFrom(_, _)
DistanceFrom(df, a) ==
    IF a > Len(SLOTS) THEN Outcome(df, "none")
    ELSE LET key_start_x == ActionKey(SLOTS[a], "start_x")
             key_start_y == ActionKey(SLOTS[a], "start_y")
             key_start_distance == ActionKey(SLOTS[a], "start_distance")
         IN  IF key_start_x \notin Columns(df) THEN Outcome(df, KeyError(key_start_x))
             ELSE IF key_start_y \notin Columns(df) THEN Outcome(df, KeyError(key_start_y))
             ELSE DistanceFrom(
                    SetColumn(df, key_start_distance,
                              ApplyDistance(df, key_start_x, key_start_y)),
                    a + 1)

ComputeDistance ==
    /\ pc = "normalized"
    /\ LET r == DistanceFrom(df_dataset, 1)
       IN  /\ df_dataset' = r.df
           /\ error' = r.error
           /\ pc' = IF Raised(r) THEN "error" ELSE "distances"
    /\ UNCHANGED <<shots_parquet, data_vars, split_vars, model_vars, eval_vars>>

(***************************************************************************)
(* Cell 19: determine body part used for each action                       *)
(***************************************************************************)
\* The comparison as >= instead of ==.
IsBodyPartAtLeast(df, key_body_part_id, code) ==
    [i \in 1..Len(df.index) |-> df.data[key_body_part_id][i] >= code]

\* df_dataset[key_body_part_id] == code
IsBodyPart(df, key_body_part_id, code) ==
    [i \in 1..Len(df.index) |-> df.data[key_body_part_id][i] = code]

RECURSIVE BodyPartFrom(_, _)
BodyPartFrom(df, a) ==
    IF a > Len(SLOTS) THEN Outcome(df, "none")
    ELSE LET key_body_part_id == ActionKey(SLOTS[a], "body_part_id")
             key_is_foot == ActionKey(SLOTS[a], "is_foot")
             key_is_head == ActionKey(SLOTS[a], "is_head")
             key_is_other == ActionKey(SLOTS[a], "is_other")
         IN  IF key_body_part_id \notin Columns(df)
             THEN Outcome(df, KeyError(key_body_part_id))
             ELSE LET df1 == SetColumn(df, key_is_foot, IsBodyPart(df, key_body_part_id, 0))
                      df2 == SetColumn(df1, key_is_head, IsBodyPart(df1, key_body_part_id, 1))
                      df3 == SetColumn(df2, key_is_other, IsBodyPart(df2, key_body_part_id, 2))
                  IN  BodyPartFrom(df3, a + 1)

BodyPart ==
    /\ pc = "distances"
    /\ LET r == BodyPartFrom(df_dataset, 1)
       IN  /\ df_dataset' = r.df
           /\ error' = r.error
           /\ pc' = IF Raised(r) THEN "error" ELSE "body_parts"
    /\ UNCHANGED <<shots_parquet, data_vars, split_vars, model_vars, eval_vars>>

(***************************************************************************)
(* Cells 22 and 23: construct the dataset                                  *)
(***************************************************************************)
columns_features ==
    << "action_start_x",
       "action_start_y",
       "action_is_foot",
       "action_is_head",
       "action_start_distance",
       "action1_start_distance",
       "action2_start_distance" >>

column_target == "action_result"

Range(s) == {s[i] : i \in 1..Len(s)}

\* df[columns]: the frame's rows with the listed columns only
SelectColumns(df, columns) ==
    [index |-> df.index, data |-> [c \in Range(columns) |-> df.data[c]]]

\* df[column]: one column as a Series
SelectColumn(df, column) == [index |-> df.index, values |-> df.data[column]]

Assemble ==
    /\ pc = "body_parts"
    /\ IF ~(Range(columns_features) \subseteq Columns(df_dataset))
       THEN /\ error' = KeyError(CHOOSE c \in Range(columns_features) :
                                    c \notin Columns(df_dataset))
            /\ pc' = "error"
            /\ UNCHANGED <<X, y>>
       ELSE /\ X' = SelectColumns(df_dataset, columns_features)
            /\ IF column_target \notin Columns(df_dataset)
               THEN /\ error' = KeyError(column_target)
                    /\ pc' = "error"
                    /\ UNCHANGED y
               ELSE /\ y' = SelectColumn(df_dataset, column_target)
                    /\ pc' = "assembled"
                    /\ UNCHANGED error
    /\ UNCHANGED <<shots_parquet, df_dataset, split_vars, model_vars, eval_vars>>

(***************************************************************************)
(* Cell 25: X_train, X_test, y_train, y_test =                             *)
(*              train_test_split(X, y, test_size=0.10)                     *)
(***************************************************************************)
test_size == Frac(1, 10)

\* The product truncated instead of rounded up.
FloorTimes(f, n) == (f[1] * n) \div f[2]

\* ceil(f * n)
CeilTimes(f, n) == -((-(f[1] * n)) \div f[2])

Shuffles(n) == {p \in [1..n -> 1..n] : \A i, j \in 1..n : p[i] = p[j] => i = j}

TakeRows(frame, positions) ==
    [index |-> [j \in 1..Len(positions) |-> frame.index[positions[j]]],
     data  |-> [c \in Columns(frame) |->
                  [j \in 1..Len(positions) |-> frame.data[c][positions[j]]]]]

TakeValues(series, positions) ==
    [index  |-> [j \in 1..Len(positions) |-> series.index[positions[j]]],
     values |-> [j \in 1..Len(positions) |-> series.values[positions[j]]]]

\* The sizes train_test_split gives the two partitions of n_samples rows:
\* the test size is rounded up and the train partition takes the rest.
SplitSizes(n_samples, size) ==
    LET n_test == CeilTimes(size, n_samples)
    IN  [n_test |-> n_test, n_train |-> n_samples - n_test]

\* The train rows taken from the start of the shuffle, as the test rows are.
train_test_split_overlapping(Xa, ya, size, permutation) ==
    LET n == SplitSizes(Len(Xa.index), size)
        ind_test == [j \in 1..n.n_test |-> permutation[j]]
        ind_train == [j \in 1..n.n_train |-> permutation[j]]
    IN  IF n.n_train = 0
        THEN [error |-> "ValueError: the resulting train set will be empty"]
        ELSE [error |-> "none",
              X_train |-> TakeRows(Xa, ind_train),
              X_test  |-> TakeRows(Xa, ind_test),
              y_train |-> TakeValues(ya, ind_train),
              y_test  |-> TakeValues(ya, ind_test)]

\* The labels cut in file order while the features follow the shuffle.
train_test_split_labels_unshuffled(Xa, ya, size, permutation) ==
    LET n == SplitSizes(Len(Xa.index), size)
        ind_test == [j \in 1..n.n_test |-> permutation[j]]
        ind_train == [j \in 1..n.n_train |-> permutation[n.n_test + j]]
    IN  IF n.n_train = 0
        THEN [error |-> "ValueError: the resulting train set will be empty"]
        ELSE [error |-> "none",
              X_train |-> TakeRows(Xa, ind_train),
              X_test  |-> TakeRows(Xa, ind_test),
              y_train |-> TakeValues(ya, [j \in 1..n.n_train |-> n.n_test + j]),
              y_test  |-> TakeValues(ya, [j \in 1..n.n_test |-> j])]

\* The split without the check for an empty train partition.
train_test_split_unchecked(Xa, ya, size, permutation) ==
    LET n == SplitSizes(Len(Xa.index), size)
        ind_test == [j \in 1..n.n_test |-> permutation[j]]
        ind_train == [j \in 1..n.n_train |-> permutation[n.n_test + j]]
    IN  [error |-> "none",
         X_train |-> TakeRows(Xa, ind_train),
         X_test  |-> TakeRows(Xa, ind_test),
         y_train |-> TakeValues(ya, ind_train),
         y_test  |-> TakeValues(ya, ind_test)]

\* train_test_split on the shuffle `permutation` of the row positions: the
\* first n_test shuffled positions are the test rows, the rest the train
\* rows, and every array is indexed by the same positions.  It raises when
\* the train partition would be empty.
train_test_split(Xa, ya, size, permutation) ==
    LET n == SplitSizes(Len(Xa.index), size)
        ind_test == [j \in 1..n.n_test |-> permutation[j]]
        ind_train == [j \in 1..n.n_train |-> permutation[n.n_test + j]]
    IN  IF n.n_train = 0
        THEN [error |-> "ValueError: the resulting train set will be empty"]
        ELSE [error |-> "none",
              X_train |-> TakeRows(Xa, ind_train),
              X_test  |-> TakeRows(Xa, ind_test),
              y_train |-> TakeValues(ya, ind_train),
              y_test  |-> TakeValues(ya, ind_test)]

SplitWith(permutation) ==
    /\ pc = "assembled"
    /\ LET r == train_test_split(X, y, test_size, permutation)
       IN  IF Raised(r)
           THEN /\ error' = r.error
                /\ pc' = "error"
                /\ UNCHANGED split_vars
           ELSE /\ X_train' = r.X_train
                /\ X_test' = r.X_test
                /\ y_train' = r.y_train
                /\ y_test' = r.y_test
                /\ pc' = "split"
                /\ UNCHANGED error
    /\ UNCHANGED <<shots_parquet, df_dataset, data_vars, model_vars, eval_vars>>

\* No seed is given: any shuffle of the rows can come out.
Split == \E permutation \in Shuffles(Len(X.index)) : SplitWith(permutation)

(***************************************************************************)
(* Cell 28: classifier = XGBClassifier(...); classifier.fit(X_train,       *)
(* y_train)                                                                *)
(***************************************************************************)
\* The fitted model is a function of the examples it was fitted on.
fit(Xa, ya) == [X |-> Xa, y |-> ya]

\* The model fitted on the whole dataset instead of the train partition.
FitOnAll ==
    /\ pc = "split"
    /\ classifier' = fit(X, y)
    /\ pc' = "fitted"
    /\ UNCHANGED <<shots_parquet, error, df_dataset, data_vars, split_vars, y_pred, eval_vars>>

Fit ==
    /\ pc = "split"
    /\ classifier' = fit(X_train, y_train)
    /\ pc' = "fitted"
    /\ UNCHANGED <<shots_parquet, error, df_dataset, data_vars, split_vars, y_pred, eval_vars>>

(***************************************************************************)
(* Cell 31: y_pred = classifier.predict_proba(X_test)                      *)
(***************************************************************************)
\* One prediction per row of Xa, made by `model`.
predict_proba(model, Xa) == [model |-> model, X |-> Xa]

Predict ==
    /\ pc = "fitted"
    /\ y_pred' = predict_proba(classifier, X_test)
    /\ pc' = "predicted"
    /\ UNCHANGED <<shots_parquet, error, df_dataset, data_vars, split_vars, classifier, eval_vars>>

(***************************************************************************)
(* Cell 33: y_total = y_train.count(); y_positive = y_train.sum()          *)
(***************************************************************************)
RECURSIVE Sum(_)
Sum(s) == IF s = <<>> THEN 0 ELSE Head(s) + Sum(Tail(s))

TrainStats ==
    /\ pc = "predicted"
    /\ y_total' = Len(y_train.values)
    /\ y_positive' = Sum(y_train.values)
    /\ pc' = "counted"
    /\ UNCHANGED <<shots_parquet, error, df_dataset, data_vars, split_vars, model_vars,
                   auc_pr_baseline, auc_roc, auc_pr, plots>>

(***************************************************************************)
(* Cell 34: auc_roc = roc_auc_score(y_test, y_pred[:, 1])                  *)
(***************************************************************************)
\* The score compares the labels y_true with the predictions y_score.
score(y_true, y_score) == [y_true |-> y_true, y_score |-> y_score]

\* roc_auc_score is undefined, and raises, when y_true holds a single class.
roc_auc_score(y_true, y_score) ==
    IF Cardinality(Range(y_true.values)) # 2
    THEN [error |-> "ValueError: Only one class present in y_true"]
    ELSE [error |-> "none", score |-> score(y_true, y_score)]

AucRoc ==
    /\ pc = "counted"
    /\ LET r == roc_auc_score(y_test, y_pred)
       IN  IF Raised(r)
           THEN /\ error' = r.error
                /\ pc' = "error"
                /\ UNCHANGED auc_roc
           ELSE /\ auc_roc' = r.score
                /\ pc' = "scored_roc"
                /\ UNCHANGED error
    /\ UNCHANGED <<shots_parquet, df_dataset, data_vars, split_vars, model_vars,
                   y_total, y_positive, auc_pr_baseline, auc_pr, plots>>

(***************************************************************************)
(* Cell 36: auc_pr_baseline = y_positive / y_total                         *)
(***************************************************************************)
Baseline ==
    /\ pc = "scored_roc"
    /\ auc_pr_baseline' = Frac(y_positive, y_total)
    /\ pc' = "baseline"
    /\ UNCHANGED <<shots_parquet, error, df_dataset, data_vars, split_vars, model_vars,
                   y_total, y_positive, auc_roc, auc_pr, plots>>

(***************************************************************************)
(* Cell 37: auc_pr = average_precision_score(y_test, y_pred[:, 1])         *)
(***************************************************************************)
average_precision_score(y_true, y_score) == score(y_true, y_score)

AucPr ==
    /\ pc = "baseline"
    /\ auc_pr' = average_precision_score(y_test, y_pred)
    /\ pc' = "scored_pr"
    /\ UNCHANGED <<shots_parquet, error, df_dataset, data_vars, split_vars, model_vars,
                   y_total, y_positive, auc_pr_baseline, auc_roc, plots>>

(***************************************************************************)
(* Cells 39, 41 and 43: plot_roc(y_test, y_pred),                          *)
(* plot_precision_recall(y_test, y_pred),                                  *)
(* plot_calibration_curve(y_test, [y_pred])                                *)
(***************************************************************************)
Plot(at, name, next) ==
    /\ pc = at
    /\ plots' = Append(plots, [plot |-> name, y_true |-> y_test, y_probas |-> y_pred])
    /\ pc' = next
    /\ UNCHANGED <<shots_parquet, error, df_dataset, data_vars, split_vars, model_vars,
                   y_total, y_positive, auc_pr_baseline, auc_roc, auc_pr>>

PlotRoc == Plot("scored_pr", "plot_roc", "plotted_roc")

PlotPrecisionRecall == Plot("plotted_roc", "plot_precision_recall", "plotted_pr")

PlotCalibration == Plot("plotted_pr", "plot_calibration_curve", "done")

(***************************************************************************)
(* The preparation pipeline (cells 8 to 25) on every small dataset file,   *)
(* with every shuffle the unseeded split can draw.                         *)
(***************************************************************************)
Next ==
    \/ Load
    \/ Normalize
    \/ ComputeDistance
    \/ BodyPart
    \/ Assemble
    \/ Split

Spec == Init /\ [][Next]_vars

(***************************************************************************)
(* Splitting, fitting and evaluating (cells 25 to 43) on datasets of up to *)
(* MaxSamples examples.  The datasets are what cells 8 to 23 build from a  *)
(* file that repeats the sample shots in order, and the empty one; the     *)
(* shuffle is one of two fixed ones, since the number of shuffles of a     *)
(* hundred rows is out of reach.                                           *)
(***************************************************************************)
RepeatedShots(n) == [i \in 1..n |-> ((i - 1) % Len(ShotSamples)) + 1]

\* df_dataset after cells 13 to 19 on a file with the full schema.
Featured(file) == BodyPartFrom(DistanceFrom(NormalizeFrom(file, 1).df, 1).df, 1).df

EvalInit ==
    /\ \E n \in 0..MaxSamples :
         /\ shots_parquet = File(RepeatedShots(n), RequiredColumns \cup {"game_id"})
         /\ df_dataset = Featured(shots_parquet)
    /\ pc = "assembled"
    /\ error = "none"
    /\ X = SelectColumns(df_dataset, columns_features)
    /\ y = SelectColumn(df_dataset, column_target)
    /\ X_train = EmptyFrame
    /\ X_test = EmptyFrame
    /\ y_train = EmptySeries
    /\ y_test = EmptySeries
    /\ classifier = NoModel
    /\ y_pred = NoPrediction
    /\ y_total = 0
    /\ y_positive = 0
    /\ auc_pr_baseline = Frac(0, 1)
    /\ auc_roc = NoScore
    /\ auc_pr = NoScore
    /\ plots = <<>>

InOrder(n) == [i \in 1..n |-> i]

Reversed(n) == [i \in 1..n |-> n + 1 - i]

SplitFixed ==
    \E permutation \in {InOrder(Len(X.index)), Reversed(Len(X.index))} :
        SplitWith(permutation)

EvalNext ==
    \/ SplitFixed
    \/ Fit
    \/ Predict
    \/ TrainStats
    \/ AucRoc
    \/ Baseline
    \/ AucPr
    \/ PlotRoc
    \/ PlotPrecisionRecall
    \/ PlotCalibration

EvalSpec == EvalInit /\ [][EvalNext]_vars

(***************************************************************************)
(* Properties.  Where a cell stands in a run is read from pc and error.    *)
(***************************************************************************)
CoordinateKeyErrors == {KeyError(c) : c \in COORDINATE_COLUMNS}

BodyPartKeyErrors == {KeyError(c) : c \in BODY_PART_COLUMNS}

SplitError == "ValueError: the resulting train set will be empty"

\* Cell 13 ran to its end.
NormalizerDone ==
    /\ pc \notin {"start", "loaded"}
    /\ pc = "error" => error \notin CoordinateKeyErrors

\* Cells 18 and 19 ran to their end.
FeatureBuilderDone ==
    /\ NormalizerDone
    /\ pc \notin {"normalized", "distances"}
    /\ pc = "error" => error \notin BodyPartKeyErrors

\* Cell 18 ran to its end.
DistancesDone == NormalizerDone /\ pc # "normalized"

Zero == <<0, 1>>

One == <<1, 1>>

InRange(v, low, high) == FracLeq(<<low, 1>>, v) /\ FracLeq(v, <<high, 1>>)

Rows(frame) == 1..Len(frame.index)

\* Every coordinate the file holds lies on the 105 x 68 pitch.
FileInBounds ==
    \A a \in 1..3, s \in 1..2 :
        /\ Key(SLOTS[a], SIDES[s], "x") \in Columns(shots_parquet)
             => \A i \in Rows(shots_parquet) :
                  InRange(shots_parquet.data[Key(SLOTS[a], SIDES[s], "x")][i], 0, 105)
        /\ Key(SLOTS[a], SIDES[s], "y") \in Columns(shots_parquet)
             => \A i \in Rows(shots_parquet) :
                  InRange(shots_parquet.data[Key(SLOTS[a], SIDES[s], "y")][i], 0, 68)

\* C1: after the Normalizer, when every coordinate of the loaded data was on
\* the pitch ([0,105] for x, [0,68] for y), the start_x, end_x, start_y and
\* end_y of every record and of each of the three action slots lie in [0,1].
C1_NormalizedInUnitSquare ==
    (NormalizerDone /\ FileInBounds) =>
        \A c \in COORDINATE_COLUMNS :
            /\ c \in Columns(df_dataset)
            /\ \A i \in Rows(df_dataset) : InRange(df_dataset.data[c][i], 0, 1)

\* A run just normalized an on-pitch file of several shots, one of them
\* starting on the far goal line (x = 105, normalized to exactly 1).
C1_Witness ==
    /\ pc = "normalized"
    /\ FileInBounds
    /\ Len(df_dataset.index) >= 2
    /\ \E i \in Rows(df_dataset) :
          /\ shots_parquet.data["action_start_x"][i] = <<105, 1>>
          /\ df_dataset.data["action_start_x"][i] = One

\* C2: after the Feature Builder, for every record and slot, is_foot,
\* is_head and is_other are the tests of body_part_id against 0, 1 and 2:
\* exactly one is true for a code in {0,1,2}, none for any other code; and a
\* code outside {0,1,2} raises nothing (a file with the full schema only
\* ever stops at the splitter).
C2_BodyPartIndicators ==
    /\ FeatureBuilderDone =>
         \A a \in 1..3 : \A i \in Rows(df_dataset) :
            LET code == shots_parquet.data[ActionKey(SLOTS[a], "body_part_id")][i]
                foot == df_dataset.data[ActionKey(SLOTS[a], "is_foot")][i]
                head == df_dataset.data[ActionKey(SLOTS[a], "is_head")][i]
                other == df_dataset.data[ActionKey(SLOTS[a], "is_other")][i]
                trues == Cardinality({k \in {"foot", "head", "other"} :
                            [foot |-> foot, head |-> head, other |-> other][k]})
            IN  /\ foot <=> (code = 0)
                /\ head <=> (code = 1)
                /\ other <=> (code = 2)
                /\ code \in {0, 1, 2} => trues = 1
                /\ code \notin {0, 1, 2} => trues = 0
    /\ (pc = "error" /\ RequiredColumns \subseteq Columns(shots_parquet)) =>
          error = SplitError

\* The Feature Builder has run over shots whose body-part codes are a foot,
\* a head, an other and a code outside {0,1,2}.
C2_Witness ==
    /\ pc = "body_parts"
    /\ \A code \in {0, 1, 2} :
         \E a \in 1..3 : \E i \in Rows(df_dataset) :
            shots_parquet.data[ActionKey(SLOTS[a], "body_part_id")][i] = code
    /\ \E i \in Rows(df_dataset) :
         /\ shots_parquet.data["action_body_part_id"][i] = 3
         /\ ~df_dataset.data["action_is_foot"][i]
         /\ ~df_dataset.data["action_is_head"][i]
         /\ ~df_dataset.data["action_is_other"][i]

\* (1 - x/105)^2 + (1/2 - y/68)^2 for the raw location (x, y)
SquaredDistanceToGoal(px, py) ==
    Frac((105 - px) * (105 - px) * 136 * 136 + (68 - 2 * py) * (68 - 2 * py) * 105 * 105,
         105 * 105 * 136 * 136)

\* C5: for every record and slot, start_distance is the Euclidean distance
\* from the normalized (start_x, start_y) to the goal centre (1, 0.5): its
\* square is (1 - start_x)^2 + (0.5 - start_y)^2 on the normalized
\* coordinates; (1, 0.5) gives 0, (0, 0.5) gives 1, (0, 0) gives sqrt(1.25).
C5_DistanceToGoal ==
    DistancesDone =>
        \A a \in 1..3 : \A i \in Rows(df_dataset) :
            LET px == shots_parquet.data[ActionKey(SLOTS[a], "start_x")][i]
                py == shots_parquet.data[ActionKey(SLOTS[a], "start_y")][i]
                d == df_dataset.data[ActionKey(SLOTS[a], "start_distance")][i]
            IN  /\ d.sqrt_of = SquaredDistanceToGoal(px[1], py[1])
                /\ (px = <<105, 1>> /\ py = <<34, 1>>) => d.sqrt_of = Zero
                /\ (px = <<0, 1>> /\ py = <<34, 1>>) => d.sqrt_of = One
                /\ (px = <<0, 1>> /\ py = <<0, 1>>) => d.sqrt_of = <<5, 4>>

\* The distances of a shot from the goal centre, of an action from the
\* centre of the own goal line and of an action from a corner are computed.
C5_Witness ==
    /\ pc = "distances"
    /\ \E i \in Rows(df_dataset) :
         /\ df_dataset.data["action_start_x"][i] = One
         /\ df_dataset.data["action_start_y"][i] = <<1, 2>>
         /\ df_dataset.data["action_start_distance"][i].sqrt_of = Zero
         /\ df_dataset.data["action1_start_x"][i] = Zero
         /\ df_dataset.data["action1_start_distance"][i].sqrt_of = One
         /\ df_dataset.data["action2_start_y"][i] = Zero
         /\ df_dataset.data["action2_start_distance"][i].sqrt_of = <<5, 4>>

\* How often `label` occurs in the sequence s.
Count(s, label) == Cardinality({i \in 1..Len(s) : s[i] = label})

\* The two index sequences hold every label of `whole` exactly once.
Partitions(whole, part1, part2) ==
    /\ Len(part1) + Len(part2) = Len(whole)
    /\ Range(part1) \cap Range(part2) = {}
    /\ \A label \in Range(whole) : Count(part1, label) + Count(part2, label) = 1

\* C3: whatever shuffle the unseeded split draws, the train and test
\* partitions it returns hold every original row exactly once: no row in
\* both, none lost, len(train) + len(test) = N.
C3_SplitIsPartition ==
    pc = "split" =>
        /\ Partitions(X.index, X_train.index, X_test.index)
        /\ Partitions(y.index, y_train.index, y_test.index)
        /\ Len(X_train.index) + Len(X_test.index) = Len(shots_parquet.index)

Ascending(s) == \A i \in 1..(Len(s) - 1) : s[i] < s[i + 1]

\* The split returned for the largest file, with the train rows out of
\* file order.
C3_Witness ==
    /\ pc = "split"
    /\ Len(X.index) = MaxRows
    /\ Len(X_test.index) = 1
    /\ ~Ascending(X_train.index)

\* Row j of `frame` and entry j of `series` are the features and the label
\* of the same record of the dataset, the one their common label names.
Aligned(frame, series) ==
    /\ frame.index = series.index
    /\ \A j \in Rows(frame) :
         LET r == frame.index[j] + 1
         IN  /\ \A c \in Range(columns_features) :
                    frame.data[c][j] = df_dataset.data[c][r]
             /\ series.values[j] = shots_parquet.data["action_result"][r]

\* C4: after the Assembler, X and y have equal length and row i of X and
\* y[i] come from the same source record; after the Splitter the same holds
\* of X_train and y_train, and of X_test and y_test.
C4_FeatureLabelAlignment ==
    /\ (pc \in {"assembled", "split"} \/ (pc = "error" /\ error = SplitError)) =>
          /\ Len(X.index) = Len(y.index)
          /\ Len(X.index) = Len(shots_parquet.index)
          /\ Aligned(X, y)
    /\ pc = "split" =>
          /\ Aligned(X_train, y_train)
          /\ Aligned(X_test, y_test)

\* The split returned shuffled train rows that hold a goal and a miss.
C4_Witness ==
    /\ pc = "split"
    /\ Len(X_train.index) >= 2
    /\ ~Ascending(X_train.index)
    /\ Range(y_train.values) = {0, 1}
    /\ X_train.data["action_start_x"][1] # X_train.data["action_start_x"][2]

X_COLUMNS == {Key(SLOTS[a], SIDES[s], "x") : a \in 1..3, s \in 1..2}

\* Value w is value v divided by k.
IsQuotient(w, v, k) == w[1] * v[2] * k = v[1] * w[2]

\* Column c of the dataset is the file's column divided by 105 (x) or 68 (y).
IsNormalized(c) ==
    /\ c \in Columns(df_dataset)
    /\ Len(df_dataset.data[c]) = Len(shots_parquet.data[c])
    /\ \A i \in Rows(shots_parquet) :
          IsQuotient(df_dataset.data[c][i], shots_parquet.data[c][i],
                     IF c \in X_COLUMNS THEN 105 ELSE 68)

\* Column c of the dataset is as the file holds it.
IsAsLoaded(c) == c \in Columns(df_dataset) /\ df_dataset.data[c] = shots_parquet.data[c]

\* C6 as stated: once loaded, every column present at load time holds the
\* same values at every later point of the run.
C6_LoadedColumnsNeverChange ==
    pc # "start" => \A c \in Columns(shots_parquet) : IsAsLoaded(c)

\* C6 as the code has it: every loaded column other than the coordinate
\* columns holds its loaded values at every later point; the Normalizer
\* overwrites each coordinate column in place with its values divided by
\* 105 (x) or 68 (y), and once it has run they stay so; the later steps
\* only add columns or build new objects.
C6_OnlyCoordinatesOverwritten ==
    pc # "start" =>
        /\ \A c \in Columns(shots_parquet) \ COORDINATE_COLUMNS : IsAsLoaded(c)
        /\ \A c \in Columns(shots_parquet) \cap COORDINATE_COLUMNS :
              IsAsLoaded(c) \/ IsNormalized(c)
        /\ NormalizerDone => \A c \in COORDINATE_COLUMNS : IsNormalized(c)

\* After the split the shot's start_x no longer holds what was loaded, while
\* its body-part code and the untouched game_id do.
C6_Witness ==
    /\ pc = "split"
    /\ df_dataset.data["action_start_x"] # shots_parquet.data["action_start_x"]
    /\ IsNormalized("action_start_x")
    /\ IsAsLoaded("action_body_part_id")
    /\ IsAsLoaded("game_id")

\* The coordinate columns in the order the Normalizer's loop reads them.
CoordinateOrder ==
    << "action_start_x", "action_start_y", "action_end_x", "action_end_y",
       "action1_start_x", "action1_start_y", "action1_end_x", "action1_end_y",
       "action2_start_x", "action2_start_y", "action2_end_x", "action2_end_y" >>

DistanceColumns(slots) == {ActionKey(SLOTS[a], "start_distance") : a \in slots}

IndicatorColumns(slots) ==
    {ActionKey(SLOTS[a], kind) : a \in slots, kind \in {"is_foot", "is_head", "is_other"}}

AddedColumns == Columns(df_dataset) \ Columns(shots_parquet)

SplitUnbound ==
    /\ X_train = EmptyFrame
    /\ X_test = EmptyFrame
    /\ y_train = EmptySeries
    /\ y_test = EmptySeries

\* C8 as stated: when a required column is missing, the run aborts and at
\* the abort no column of the dataset has been changed or added.
C8_AbortBeforeAnyComputation ==
    \A m \in RequiredColumns \ Columns(shots_parquet) :
        /\ pc \notin {"assembled", "split"}
        /\ pc = "error" => df_dataset = shots_parquet

\* C8 as the code has it: a missing required column is fatal, but the run
\* aborts only at the first statement that reads it, with a KeyError naming
\* it.  No later statement runs (the splitter never does), and everything
\* before it has taken effect: the coordinate columns earlier in loop order
\* are normalized and the later ones are not; a missing body-part column
\* leaves all coordinates normalized, the three distances and the earlier
\* slots' indicators added; a missing action_result leaves all twelve
\* feature columns added and X bound.
C8_AbortAtFirstRead ==
    \A m \in RequiredColumns \ Columns(shots_parquet) :
        /\ pc \notin {"assembled", "split"}
        /\ pc = "error" =>
            /\ error = KeyError(m)
            /\ y = EmptySeries
            /\ SplitUnbound
            /\ m \in COORDINATE_COLUMNS =>
                 \E k \in 1..12 :
                    /\ CoordinateOrder[k] = m
                    /\ \A n \in 1..(k - 1) : IsNormalized(CoordinateOrder[n])
                    /\ \A n \in (k + 1)..12 : IsAsLoaded(CoordinateOrder[n])
                    /\ AddedColumns = {}
                    /\ X = EmptyFrame
            /\ m \in BODY_PART_COLUMNS =>
                 \E a \in 1..3 :
                    /\ ActionKey(SLOTS[a], "body_part_id") = m
                    /\ \A c \in COORDINATE_COLUMNS : IsNormalized(c)
                    /\ AddedColumns = DistanceColumns(1..3) \cup IndicatorColumns(1..(a - 1))
                    /\ X = EmptyFrame
            /\ m = "action_result" =>
                    /\ \A c \in COORDINATE_COLUMNS : IsNormalized(c)
                    /\ AddedColumns = DistanceColumns(1..3) \cup IndicatorColumns(1..3)
                    /\ X # EmptyFrame

\* A run aborted on a file without action2_body_part_id, after it had
\* normalized the coordinates and added nine columns.
C8_Witness ==
    /\ pc = "error"
    /\ "action2_body_part_id" \notin Columns(shots_parquet)
    /\ error = KeyError("action2_body_part_id")
    /\ Cardinality(AddedColumns) = 9
    /\ df_dataset.data["action_start_x"] # shots_parquet.data["action_start_x"]

\* The split of cell 25 returned its four partitions.
SplitReturned == pc \notin {"assembled", "error"} \/ (pc = "error" /\ error # SplitError)

\* Python's round(n * 0.10): to the nearest integer, a half to the even one.
RoundTenth(n) ==
    LET q == n \div 10
        r == n % 10
    IN  IF r < 5 THEN q
        ELSE IF r > 5 THEN q + 1
        ELSE IF q % 2 = 0 THEN q ELSE q + 1

\* C7 as stated: the test partition has round(N * 0.10) rows and the train
\* partition the remaining ones.
C7_TestSizeIsRounded ==
    SplitReturned =>
        /\ Len(X_test.index) = RoundTenth(Len(X.index))
        /\ Len(X_train.index) = Len(X.index) - RoundTenth(Len(X.index))

\* C7 as the code has it: the test partition has ceil(N * 0.10) rows, the
\* least t with 10 t >= N, and the train partition the remaining N - t; for
\* N = 100 the test partition has exactly 10 rows.
C7_TestSizeIsCeiling ==
    SplitReturned =>
        LET N == Len(X.index)
            t == Len(X_test.index)
        IN  /\ 10 * t >= N
            /\ 10 * (t - 1) < N
            /\ Len(X_train.index) = N - t
            /\ Len(y_test.index) = t
            /\ Len(y_train.index) = N - t
            /\ N = 100 => t = 10

\* A hundred examples were split into 10 test and 90 train rows.
C7_Witness ==
    /\ pc = "split"
    /\ Len(X.index) = 100
    /\ Len(X_test.index) = 10
    /\ Len(X_train.index) = 90

\* C9: with no row to put in the test partition the splitter raises and
\* binds no partition; and whenever it returns, the test partition is not
\* empty.
C9_DegenerateSplitFailsFast ==
    /\ (Len(X.index) = 0 /\ pc # "assembled") =>
          /\ pc = "error"
          /\ error = SplitError
          /\ SplitUnbound
    /\ SplitReturned =>
          /\ Len(X_test.index) >= 1
          /\ Len(y_test.index) >= 1

\* The splitter was given the empty dataset and raised.
C9_Witness ==
    /\ pc = "error"
    /\ Len(X.index) = 0
    /\ error = SplitError
    /\ SplitUnbound

Labels(frame) == Range(frame.index)

\* C10: the classifier whose predictions are scored was fitted on the train
\* partition only, the predictions, scores and plots use the test partition
\* only, no source record is in both, and nothing is fitted before the split
\* or predicted before the fit.
C10_NoTrainTestLeakage ==
    /\ pc \in {"assembled", "split"} => classifier = NoModel
    /\ pc \in {"assembled", "split", "fitted"} => y_pred = NoPrediction
    /\ classifier # NoModel =>
          /\ SplitReturned
          /\ classifier.X = X_train
          /\ classifier.y = y_train
    /\ y_pred # NoPrediction =>
          /\ y_pred.model # NoModel
          /\ y_pred.model.X = X_train
          /\ y_pred.model.y = y_train
          /\ y_pred.X = X_test
          /\ Labels(y_pred.model.X) \cap Labels(y_pred.X) = {}
          /\ Labels(y_pred.model.y) \cap Labels(y_test) = {}
    /\ \A s \in {auc_roc, auc_pr} :
          s # NoScore => (s.y_true = y_test /\ s.y_score = y_pred /\ y_pred # NoPrediction)
    /\ \A k \in 1..Len(plots) :
          /\ plots[k].y_true = y_test
          /\ plots[k].y_probas = y_pred
          /\ y_pred # NoPrediction

\* A run over a hundred examples fitted, predicted, scored and plotted.
C10_Witness ==
    /\ pc = "done"
    /\ Len(X.index) = 100
    /\ auc_roc # NoScore
    /\ auc_pr # NoScore
    /\ Len(plots) = 3
    /\ Len(classifier.X.index) = 90
    /\ Len(y_pred.X.index) = 10

====
